---- MODULE Spec2Model ----
(***************************************************************************)
(* The CVRP environment of src/src/rl/env.py (class CVRPEnv) as a state    *)
(* machine.  A state holds the problem instance handed to __init__ and the *)
(* episode fields of the object; the actions are the public calls reset()  *)
(* and step(action).  The outcome of the most recent call (the value it    *)
(* returned or the exception it raised) is kept in `ret', and the values   *)
(* of step's local variables `reward' and `done' in `local'.               *)
(*                                                                         *)
(* Python indices are kept as in the source (0-based); a Python list is a  *)
(* TLA+ sequence, so list[i] is seq[i + 1].  Real numbers are exact        *)
(* rationals <<numerator, denominator>> with a positive denominator.       *)
(* Node coordinates lie on a line, so the Euclidean distance is |x - y|.   *)
(***************************************************************************)
EXTENDS Integers, Sequences, FiniteSets, TLC

\* ------------------------------------------------------------- bounds
NumCustomers == 3

\* ---------------------------------------------------- program constants
depot_id == 0
INVALID_PENALTY == -1000
REWARD_NUMERATOR == 1000
None == -1
max_consecutive_actions == 3
REPEAT_PENALTY == 1000

\* ------------------------------------------------------ instance inputs
Customers == 1..NumCustomers
Nodes == 0..NumCustomers
Coords == {0, 1}
DemandValues == {3, 4, 5}
Capacities == {4, 10}
ActionInputs == Nodes \cup {None}

VARIABLES
    nodes,                  \* self.nodes: node id -> coordinate
    demands,                \* self.demands: node id -> demand
    capacity,               \* self.capacity
    distances,              \* self.distances[i][j]
    current_node,
    unvisited,
    current_load,
    current_route,
    all_routes,
    total_distance,
    last_depot_visit_idx,
    best_solution,          \* [routes, distance]; distance <<>> is float("inf")
    ret,                    \* outcome of the most recent call
    local,                  \* step's locals reward and done at its exit
    q_table,                \* agent: state -> (action -> estimate)
    lr,                     \* agent: learning_rate
    gamma,                  \* agent: discount_factor
    epsilon,
    epsilon_decay,
    epsilon_min,
    total_actions,
    last_action,
    consecutive_same_actions,
    agent_call,             \* the most recent call of the agent, with arguments
    agent_ret,              \* value returned by the most recent choose_action
    calls,                  \* number of update and decay_epsilon calls so far
    streak,                 \* how many choose_action calls in a row returned
                            \* last_action (history, not a field)
    driver                  \* main.py: position and variables of the training loop

instance == <<nodes, demands, capacity, distances>>
episode == <<current_node, unvisited, current_load, current_route, all_routes,
             total_distance, last_depot_visit_idx>>
env == <<episode, best_solution>>
hyper == <<lr, gamma, epsilon_decay, epsilon_min>>
agent == <<q_table, hyper, epsilon, total_actions, last_action,
           consecutive_same_actions, agent_call, agent_ret, calls, streak>>
vars == <<instance, env, ret, local, agent, driver>>

\* ------------------------------------------------------------- helpers
Abs(x) == IF x < 0 THEN -x ELSE x

Min(S) == CHOOSE x \in S : \A y \in S : x <= y

\* exact rationals <<n, d>>, d > 0
Rat(n, d) == <<n, d>>
RatLess(a, b) == a[1] * b[2] < b[1] * a[2]
RatEq(a, b) == a[1] * b[2] = b[1] * a[2]
RatPositive(a) == a[1] > 0

RECURSIVE GCD(_, _)
GCD(a, b) == IF b = 0 THEN a ELSE GCD(b, a % b)

\* lowest terms, so that equal numbers are equal values
RatNorm(a) ==
    LET g == GCD(Abs(a[1]), a[2]) IN <<a[1] \div g, a[2] \div g>>
\* least common denominator: keeps the products within TLC's integers
LCM(a, b) == (a \div GCD(a, b)) * b
RatAdd(a, b) ==
    LET l == LCM(a[2], b[2])
    IN  RatNorm(<<a[1] * (l \div a[2]) + b[1] * (l \div b[2]), l>>)
RatNeg(a) == <<0 - a[1], a[2]>>
RatSub(a, b) == RatAdd(a, RatNeg(b))
RatMul(a, b) ==
    LET x == RatNorm(<<a[1], b[2]>>)
        y == RatNorm(<<b[1], a[2]>>)
    IN  RatNorm(<<x[1] * y[1], x[2] * y[2]>>)
RatLeq(a, b) ==
    LET l == LCM(a[2], b[2])
    IN  a[1] * (l \div a[2]) <= b[1] * (l \div b[2])
RatLt(a, b) == ~RatLeq(b, a)
RatMax(a, b) == IF RatLt(a, b) THEN b ELSE a
RatMin(a, b) == IF RatLt(a, b) THEN a ELSE b
RatAbs(a) == <<Abs(a[1]), a[2]>>

RECURSIVE sorted(_)
\* tuple(sorted(S)) for a set of integers
sorted(S) == IF S = {} THEN <<>> ELSE <<Min(S)>> \o sorted(S \ {Min(S)})

Range(s) == {s[i] : i \in 1..Len(s)}

\* main.py 64-72: the distance matrix computed from the coordinates
distance_matrix(coords) ==
    [i \in DOMAIN coords |->
        [j \in DOMAIN coords |-> IF i # j THEN Abs(coords[i] - coords[j]) ELSE 0]]

\* ------------------------------------------------------------ get_state
get_state ==
    <<current_node,
      sorted(unvisited),
      current_load,
      SubSeq(current_route, last_depot_visit_idx + 1, Len(current_route)),
      current_node = depot_id>>

\* ------------------------------------------------------ get_valid_moves
\* mutant: the capacity test of env.py 69 left out
feasible_customers_no_capacity(S) == sorted(S)

RECURSIVE feasible_customers(_)
\* env.py 68-70: the loop over self.unvisited (a set of small ints iterates
\* in ascending order), appending the nodes that fit
feasible_customers(S) ==
    IF S = {} THEN <<>>
    ELSE LET node == Min(S) IN
         (IF current_load + demands[node] <= capacity THEN <<node>> ELSE <<>>)
            \o feasible_customers(S \ {node})

\* mutant: the depot is a move only once every customer is served
can_return_to_depot_when_all_served(valid_moves) ==
    /\ current_node # depot_id
    /\ Len(current_route) - last_depot_visit_idx - 1 > 0
    /\ unvisited = {}

\* mutant: the third condition of env.py 79-81 left out
can_return_to_depot_early(valid_moves) ==
    /\ current_node # depot_id
    /\ Len(current_route) - last_depot_visit_idx - 1 > 0

\* mutant: the first two conditions of env.py 77-78 left out
can_return_to_depot_from_depot(valid_moves) ==
    valid_moves = <<>> \/ unvisited = {}

\* env.py 76-82
can_return_to_depot(valid_moves) ==
    /\ current_node # depot_id
    /\ Len(current_route) - last_depot_visit_idx - 1 > 0
    /\ (valid_moves = <<>> \/ unvisited = {})

get_valid_moves ==
    LET valid_moves == feasible_customers(unvisited) IN
    IF can_return_to_depot(valid_moves)
    THEN Append(valid_moves, depot_id)
    ELSE valid_moves

\* ---------------------------------------------------- validate_solution
RECURSIVE route_demand(_)
\* env.py 214-216
route_demand(route) ==
    IF route = <<>> THEN 0
    ELSE (IF Head(route) # depot_id THEN demands[Head(route)] ELSE 0)
            + route_demand(Tail(route))

RECURSIVE scan_nodes(_, _, _)
\* env.py 222-227: the inner loop; a repeated client sets valid = False and
\* breaks out of the inner loop only
scan_nodes(route, i, acc) ==
    IF i > Len(route) THEN acc
    ELSE IF route[i] # depot_id
         THEN IF route[i] \in acc.visited_clients
              THEN [acc EXCEPT !.valid = FALSE]
              ELSE scan_nodes(route, i + 1,
                      [acc EXCEPT !.visited_clients = @ \cup {route[i]}])
         ELSE scan_nodes(route, i + 1, acc)

RECURSIVE scan_routes(_, _, _)
\* env.py 202-229: the loop over self.all_routes
scan_routes(routes, k, acc) ==
    IF k > Len(routes) THEN acc
    ELSE LET route == routes[k] IN
         IF route[1] # depot_id \/ route[Len(route)] # depot_id
         THEN [acc EXCEPT !.valid = FALSE]
         ELSE IF Len(route) <= 2
         THEN [acc EXCEPT !.valid = FALSE]
         ELSE IF route_demand(route) > capacity
         THEN [acc EXCEPT !.valid = FALSE]
         ELSE scan_routes(routes, k + 1, scan_nodes(route, 1, acc))

\* env.py 239: 1000 / d; the division raises when d is 0
valid_reward(d) ==
    IF d = 0
    THEN [kind |-> "ZeroDivisionError", valid |-> TRUE, reward |-> Rat(0, 1)]
    ELSE [kind |-> "value", valid |-> TRUE, reward |-> Rat(REWARD_NUMERATOR, d)]

\* the result of a call: the reward returned, or the exception raised
validate_solution ==
    LET acc == scan_routes(all_routes, 1, [visited_clients |-> {}, valid |-> TRUE])
        valid == acc.valid /\ acc.visited_clients = DOMAIN demands
    IN  IF ~valid
        THEN [kind |-> "value", valid |-> FALSE, reward |-> Rat(INVALID_PENALTY, 1)]
        ELSE valid_reward(total_distance)

\* ------------------------------------------------------ call outcomes
NoState == <<>>
Returned(state, reward, done) ==
    [kind |-> "return", state |-> state, reward |-> <<reward>>, done |-> <<done>>]
ReturnedState(state) ==
    [kind |-> "return", state |-> state, reward |-> <<>>, done |-> <<>>]
Raised(exception) ==
    [kind |-> exception, state |-> NoState, reward |-> <<>>, done |-> <<>>]
NoCall == [kind |-> "none", state |-> NoState, reward |-> <<>>, done |-> <<>>]
Locals(reward, done) == [reward |-> reward, done |-> done]
NoLocals == Locals(<<>>, <<>>)

\* ----------------------------------------------------------------- step
better_than_best(d) ==
    best_solution.distance = <<>> \/ d < best_solution.distance[1]

\* mutant: an invalid action raises
invalid_action_raises ==
    /\ ret' = Raised("ValueError")
    /\ local' = NoLocals
    /\ UNCHANGED env

\* mutant: the penalty is returned without ending the episode
invalid_action_not_done ==
    /\ ret' = Returned(get_state, Rat(INVALID_PENALTY, 1), FALSE)
    /\ local' = NoLocals
    /\ UNCHANGED env

\* env.py 91-92: the action is not among the valid moves
invalid_action ==
    /\ ret' = Returned(get_state, Rat(INVALID_PENALTY, 1), TRUE)
    /\ local' = NoLocals
    /\ UNCHANGED env

\* mutant: the load is not accumulated (env.py 105 left out)
move_to_customer_no_load(a) ==
    /\ current_load' = current_load
    /\ unvisited' = unvisited \ {a}
    /\ UNCHANGED last_depot_visit_idx

\* mutant: the customer stays in unvisited (env.py 106 left out)
move_to_customer_keep_unvisited(a) ==
    /\ current_load' = current_load + demands[a]
    /\ UNCHANGED unvisited
    /\ UNCHANGED last_depot_visit_idx

\* env.py 104-106: the action is a customer
move_to_customer(a) ==
    /\ current_load' = current_load + demands[a]
    /\ unvisited' = unvisited \ {a}
    /\ UNCHANGED last_depot_visit_idx

\* env.py 107-109: the action is the depot
move_to_depot ==
    /\ current_load' = 0
    /\ last_depot_visit_idx' = Len(current_route)
    /\ UNCHANGED unvisited

\* env.py 117-131: done is true; read after the fields above are assigned
complete_solution ==
    /\ all_routes' = Append(all_routes, current_route')
    /\ LET v == validate_solution' IN
       IF v.kind # "value"
       THEN \* validate_solution raised
            /\ ret' = Raised(v.kind)
            /\ local' = Locals(<<>>, <<TRUE>>)
            /\ UNCHANGED best_solution
       ELSE /\ best_solution' =
                 IF RatPositive(v.reward) /\ better_than_best(total_distance')
                 THEN [routes |-> all_routes', distance |-> <<total_distance'>>]
                 ELSE best_solution
            \* env.py 126: best_distance is assigned in step, so it is a local
            \* of step, and it is read here before any assignment
            /\ ret' = Raised("UnboundLocalError")
            /\ local' = Locals(<<v.reward>>, <<TRUE>>)

\* mutant: the distance itself is the reward
intermediate_step_distance_reward(distance) ==
    /\ UNCHANGED <<all_routes, best_solution>>
    /\ ret' = Returned(get_state', Rat(distance, 1), FALSE)
    /\ local' = Locals(<<Rat(distance, 1)>>, <<FALSE>>)

\* mutant: done reported on every depot return
intermediate_step_done_at_depot(distance) ==
    /\ UNCHANGED <<all_routes, best_solution>>
    /\ ret' = Returned(get_state', Rat(-distance, 1), current_node' = depot_id)
    /\ local' = Locals(<<Rat(-distance, 1)>>, <<current_node' = depot_id>>)

\* env.py 132-136: done is false
intermediate_step(distance) ==
    /\ UNCHANGED <<all_routes, best_solution>>
    /\ ret' = Returned(get_state', Rat(-distance, 1), FALSE)
    /\ local' = Locals(<<Rat(-distance, 1)>>, <<FALSE>>)

step(a) ==
    /\ UNCHANGED instance
    /\ IF \A i \in 1..Len(get_valid_moves) : get_valid_moves[i] # a
       THEN invalid_action
       ELSE LET distance == distances[current_node][a] IN
            /\ total_distance' = total_distance + distance
            /\ current_node' = a
            /\ IF a # depot_id THEN move_to_customer(a) ELSE move_to_depot
            /\ current_route' = Append(current_route, a)
            /\ IF unvisited' = {} /\ current_node' = depot_id
               THEN complete_solution
               ELSE intermediate_step(distance)

\* ---------------------------------------------------------------- reset
\* mutant: the recorded routes survive the reset (env.py 144 left out)
reset_keep_routes ==
    /\ UNCHANGED instance
    /\ current_node' = depot_id
    /\ unvisited' = DOMAIN nodes \ {depot_id}
    /\ current_load' = 0
    /\ current_route' = <<depot_id>>
    /\ UNCHANGED all_routes
    /\ total_distance' = 0
    /\ last_depot_visit_idx' = 0
    /\ ret' = ReturnedState(get_state')
    /\ local' = NoLocals
    /\ UNCHANGED best_solution

\* mutant: the distance runs on over the reset (env.py 145 left out)
reset_keep_distance ==
    /\ UNCHANGED instance
    /\ current_node' = depot_id
    /\ unvisited' = DOMAIN nodes \ {depot_id}
    /\ current_load' = 0
    /\ current_route' = <<depot_id>>
    /\ all_routes' = <<>>
    /\ UNCHANGED total_distance
    /\ last_depot_visit_idx' = 0
    /\ ret' = ReturnedState(get_state')
    /\ local' = NoLocals
    /\ UNCHANGED best_solution

reset ==
    /\ UNCHANGED instance
    /\ current_node' = depot_id
    /\ unvisited' = DOMAIN nodes \ {depot_id}
    /\ current_load' = 0
    /\ current_route' = <<depot_id>>
    /\ all_routes' = <<>>
    /\ total_distance' = 0
    /\ last_depot_visit_idx' = 0
    /\ ret' = ReturnedState(get_state')
    /\ local' = NoLocals
    /\ UNCHANGED best_solution

\* ======================================================================
\* The agent of src/src/rl/q_learning.py (class QLearningAgent)
\* ======================================================================
\* q_learning.py 6-24
QLearningAgent_init(learning_rate, discount_factor, eps, eps_decay, eps_min) ==
    /\ q_table = <<>>
    /\ lr = learning_rate
    /\ gamma = discount_factor
    /\ epsilon = eps
    /\ epsilon_decay = eps_decay
    /\ epsilon_min = eps_min
    /\ total_actions = 0
    /\ last_action = None
    /\ consecutive_same_actions = 0
    /\ agent_call = [op |-> "none"]
    /\ agent_ret = None
    /\ calls = 0
    /\ streak = 0

\* q_learning.py 30-36: the value get_q_value returns
get_q_value(table, state, a) ==
    IF state \in DOMAIN table /\ a \in DOMAIN table[state]
    THEN table[state][a]
    ELSE Rat(0, 1)

\* mutant: an unseen pair is entered with the value 1
after_get_q_value_default_one(table, state, a) ==
    IF state \notin DOMAIN table
    THEN table @@ (state :> (a :> Rat(1, 1)))
    ELSE IF a \notin DOMAIN table[state]
    THEN [table EXCEPT ![state] = @ @@ (a :> Rat(1, 1))]
    ELSE table

\* q_learning.py 32-35: the table get_q_value leaves behind
after_get_q_value(table, state, a) ==
    IF state \notin DOMAIN table
    THEN table @@ (state :> (a :> Rat(0, 1)))
    ELSE IF a \notin DOMAIN table[state]
    THEN [table EXCEPT ![state] = @ @@ (a :> Rat(0, 1))]
    ELSE table

RECURSIVE after_get_q_values(_, _, _)
\* get_q_value called for every action of a list, in order
after_get_q_values(table, state, moves) ==
    IF moves = <<>> THEN table
    ELSE after_get_q_values(after_get_q_value(table, state, Head(moves)),
                            state, Tail(moves))

\* q_learning.py 58-61
repeat_penalty_applies(valid_moves) ==
    /\ last_action \in Range(valid_moves)
    /\ consecutive_same_actions >= max_consecutive_actions

\* q_learning.py 55-62: the values compared, by position in valid_moves
q_values(state, valid_moves) ==
    [i \in 1..Len(valid_moves) |->
        IF repeat_penalty_applies(valid_moves) /\ valid_moves[i] = last_action
        THEN RatSub(get_q_value(q_table, state, valid_moves[i]),
                    Rat(REPEAT_PENALTY, 1))
        ELSE get_q_value(q_table, state, valid_moves[i])]

\* mutant: the last of several maximal actions
best_action_last(state, valid_moves) ==
    LET qv == q_values(state, valid_moves)
        i == CHOOSE i \in 1..Len(valid_moves) :
                /\ \A j \in 1..Len(valid_moves) : RatLeq(qv[j], qv[i])
                /\ \A j \in (i + 1)..Len(valid_moves) : RatLt(qv[j], qv[i])
    IN  valid_moves[i]

\* q_learning.py 64: max keeps the first maximal item
best_action(state, valid_moves) ==
    LET qv == q_values(state, valid_moves)
        i == CHOOSE i \in 1..Len(valid_moves) :
                /\ \A j \in 1..Len(valid_moves) : RatLeq(qv[j], qv[i])
                /\ \A j \in 1..(i - 1) : RatLt(qv[j], qv[i])
    IN  valid_moves[i]

\* mutant: the counter is not reset by a different action
record_choice_no_reset(a) ==
    /\ consecutive_same_actions' = consecutive_same_actions + 1
    /\ last_action' = a
    /\ agent_ret' = a

\* q_learning.py 48-52 and 67-72
record_choice(a) ==
    /\ consecutive_same_actions' =
          IF a # last_action THEN 0 ELSE consecutive_same_actions + 1
    /\ last_action' = a
    /\ agent_ret' = a

\* mutant: exploration draws from every node, not from valid_moves
explore_any_node(valid_moves, k) ==
    /\ \E a \in Nodes : record_choice(a)
    /\ UNCHANGED q_table

\* q_learning.py 47-52
explore(valid_moves, k) ==
    /\ record_choice(valid_moves[k])
    /\ UNCHANGED q_table

\* q_learning.py 55-72
exploit(state, valid_moves) ==
    /\ q_table' = after_get_q_values(q_table, state, valid_moves)
    /\ record_choice(best_action(state, valid_moves))

\* q_learning.py 38-72; exploring says whether np.random.random() fell below
\* epsilon (a draw from [0, 1)), k is the index random.choice draws
choose_action(state, valid_moves, exploring, k) ==
    /\ agent_call' = [op |-> "choose_action", state |-> state,
                      valid_moves |-> valid_moves, exploring |-> exploring]
    /\ total_actions' = total_actions + 1
    /\ UNCHANGED <<hyper, epsilon, calls>>
    /\ IF valid_moves = <<>>
       THEN /\ agent_ret' = None
            /\ UNCHANGED <<q_table, last_action, consecutive_same_actions>>
       ELSE IF exploring
       THEN /\ RatPositive(epsilon)
            /\ k \in 1..Len(valid_moves)
            /\ explore(valid_moves, k)
       ELSE /\ RatLt(epsilon, Rat(1, 1))
            /\ exploit(state, valid_moves)

RECURSIVE next_min_q(_, _, _)
\* mutant: the minimum over the next actions
next_min_q(table, next_state, next_valid_moves) ==
    IF next_valid_moves = <<>> THEN Rat(0, 1)
    ELSE LET q == get_q_value(table, next_state, Head(next_valid_moves))
         IN  IF Tail(next_valid_moves) = <<>> THEN q
             ELSE RatMin(q, next_min_q(table, next_state,
                                       Tail(next_valid_moves)))

RECURSIVE next_max_q(_, _, _)
\* q_learning.py 76-83
next_max_q(table, next_state, next_valid_moves) ==
    IF next_valid_moves = <<>> THEN Rat(0, 1)
    ELSE LET q == get_q_value(table, next_state, Head(next_valid_moves))
         IN  IF Tail(next_valid_moves) = <<>> THEN q
             ELSE RatMax(q, next_max_q(table, next_state,
                                       Tail(next_valid_moves)))

\* mutant: the next-state maximum is not discounted
new_q_undiscounted(current_q, reward, next_max) ==
    RatAdd(current_q, RatMul(lr, RatSub(RatAdd(reward, next_max), current_q)))

\* q_learning.py 89
new_q(current_q, reward, next_max) ==
    RatAdd(current_q,
           RatMul(lr, RatSub(RatAdd(reward, RatMul(gamma, next_max)),
                             current_q)))

\* q_learning.py 74-94
update(state, a, reward, next_state, next_valid_moves) ==
    LET seen == after_get_q_value(
                    after_get_q_values(q_table, next_state, next_valid_moves),
                    state, a)
    IN  /\ q_table' =
              [seen EXCEPT ![state][a] =
                  new_q(get_q_value(q_table, state, a), reward,
                        next_max_q(q_table, next_state, next_valid_moves))]
        /\ agent_call' = [op |-> "update", state |-> state, action |-> a,
                          reward |-> reward, next_state |-> next_state,
                          next_valid_moves |-> next_valid_moves]
        /\ calls' = calls + 1
        /\ UNCHANGED <<hyper, epsilon, total_actions, last_action,
                       consecutive_same_actions, agent_ret>>

\* mutant: decay without the floor
decay_epsilon_no_floor ==
    /\ epsilon' = RatMul(epsilon, epsilon_decay)
    /\ agent_call' = [op |-> "decay_epsilon"]
    /\ calls' = calls + 1
    /\ UNCHANGED <<q_table, hyper, total_actions, last_action,
                   consecutive_same_actions, agent_ret>>

\* q_learning.py 96-98
decay_epsilon ==
    /\ epsilon' = RatMax(epsilon_min, RatMul(epsilon, epsilon_decay))
    /\ agent_call' = [op |-> "decay_epsilon"]
    /\ calls' = calls + 1
    /\ UNCHANGED <<q_table, hyper, total_actions, last_action,
                   consecutive_same_actions, agent_ret>>

\* ------------------------------------------------------------ instances
Instances ==
    {[coords |-> c, demands |-> d, capacity |-> q] :
        c \in {f \in [Nodes -> Coords] : f[depot_id] = 0},
        d \in {f \in [Customers -> DemandValues] :
                  \A i, j \in Customers : i <= j => f[i] <= f[j]}
              \cup {f \in [Nodes -> DemandValues \cup {0}] :
                      /\ f[depot_id] = 0
                      /\ \A i \in Customers : f[i] # 0
                      /\ \A i, j \in Customers : i <= j => f[i] <= f[j]},
        q \in Capacities}

\* CVRPEnv.__init__ on an instance built as in main.py 56-83
CVRPEnv_init(inst) ==
    /\ nodes = inst.coords
    /\ demands = inst.demands
    /\ capacity = inst.capacity
    /\ distances = distance_matrix(inst.coords)
    /\ current_node = depot_id
    /\ unvisited = DOMAIN inst.coords \ {depot_id}
    /\ current_load = 0
    /\ current_route = <<depot_id>>
    /\ all_routes = <<>>
    /\ total_distance = 0
    /\ last_depot_visit_idx = 0
    /\ best_solution = [routes |-> <<>>, distance |-> <<>>]
    /\ ret = NoCall
    /\ local = NoLocals

\* main.py 89-91: before the first episode; pc is the statement reached,
\* the other fields are the variables of the script, not yet bound
DriverInit ==
    driver = [pc |-> "episode", episode |-> 0, state |-> NoState,
              action |-> None, next_state |-> NoState, reward |-> <<>>,
              done |-> FALSE, best_distance |-> <<>>, best_route |-> <<>>]

\* the agent as main.py 86 constructs it: QLearningAgent()
DefaultAgent ==
    QLearningAgent_init(Rat(1, 10), Rat(19, 20), Rat(1, 1),
                        Rat(199, 200), Rat(1, 100))

Init ==
    /\ \E inst \in Instances : CVRPEnv_init(inst) /\ DefaultAgent
    /\ DriverInit

Step == (\E a \in ActionInputs : step(a)) /\ UNCHANGED <<agent, driver>>

Reset == reset /\ UNCHANGED <<agent, driver>>

Next == Step \/ Reset

Spec == Init /\ [][Next]_vars

\* ------------------------------------------------- the agent on its own
\* choose_action applied to an agent whose table earlier updates have filled
MaxActions == 5

AgentStates == {"s1", "s2"}
AgentMoves == {0, 1}

\* lists of distinct actions, as get_valid_moves builds them
MoveLists ==
    {m \in UNION {[1..n -> AgentMoves] : n \in 0..Cardinality(AgentMoves)} :
        \A i, j \in 1..Len(m) : i # j => m[i] # m[j]}

QTables ==
    { <<>>,
      "s1" :> (0 :> Rat(1, 1) @@ 1 :> Rat(1, 1)),
      "s1" :> (1 :> Rat(2000, 1) @@ 0 :> Rat(0, 1)) @@ "s2" :> (1 :> Rat(-1, 2)) }

Epsilons == {Rat(0, 1), Rat(1, 2), Rat(1, 1)}

\* an environment that is constructed and then left alone
OneInstance == CHOOSE inst \in Instances : DOMAIN inst.demands = Nodes

\* a default agent after some calls of update: only the table differs from
\* the constructed agent; epsilon is the constructor's argument
InitChoose ==
    /\ CVRPEnv_init(OneInstance)
    /\ DriverInit
    /\ q_table \in QTables
    /\ epsilon \in Epsilons
    /\ lr = Rat(1, 10)
    /\ gamma = Rat(19, 20)
    /\ epsilon_decay = Rat(199, 200)
    /\ epsilon_min = Rat(1, 100)
    /\ total_actions = 0
    /\ last_action = None
    /\ consecutive_same_actions = 0
    /\ agent_call = [op |-> "none"]
    /\ agent_ret = None
    /\ calls = 0
    /\ streak = 0

\* the run of equal choices after a call of choose_action
count_streak ==
    streak' = IF agent_ret' = None THEN streak
              ELSE IF agent_ret' = last_action THEN streak + 1
              ELSE 1

ChooseAction ==
    /\ total_actions < MaxActions
    /\ \E state \in AgentStates, valid_moves \in MoveLists,
          exploring \in BOOLEAN, k \in 1..Cardinality(AgentMoves) :
          /\ (valid_moves = <<>> \/ ~exploring) => (k = 1 /\ ~exploring)
          /\ choose_action(state, valid_moves, exploring, k)
    /\ count_streak
    /\ UNCHANGED <<instance, env, ret, local, driver>>

SpecChoose == InitChoose /\ [][ChooseAction]_vars

\* update applied to agents of several learning rates and discount factors
MaxUpdates == 2

\* <<learning_rate, discount_factor>>; the first pair is the default
Hypers ==
    { <<Rat(1, 10), Rat(19, 20)>>, <<Rat(1, 2), Rat(1, 2)>>,
      <<Rat(1, 1), Rat(0, 1)>>, <<Rat(1, 1), Rat(1, 1)>> }

Rewards == {Rat(-3, 1), Rat(2, 1)}

NextMoveLists == {<<>>, <<0>>, <<0, 1>>}

UpdateTables == { <<>>, "s2" :> (0 :> Rat(2, 1)) }

InitUpdate ==
    /\ CVRPEnv_init(OneInstance)
    /\ DriverInit
    /\ q_table \in UpdateTables
    /\ \E h \in Hypers : lr = h[1] /\ gamma = h[2]
    /\ epsilon = Rat(1, 1)
    /\ epsilon_decay = Rat(199, 200)
    /\ epsilon_min = Rat(1, 100)
    /\ total_actions = 0
    /\ last_action = None
    /\ consecutive_same_actions = 0
    /\ agent_call = [op |-> "none"]
    /\ agent_ret = None
    /\ calls = 0
    /\ streak = 0

Update ==
    /\ calls < MaxUpdates
    /\ \E state \in AgentStates, a \in AgentMoves, reward \in Rewards,
          next_state \in AgentStates, next_valid_moves \in NextMoveLists :
          update(state, a, reward, next_state, next_valid_moves)
    /\ UNCHANGED <<instance, env, ret, local, streak, driver>>

SpecUpdate == InitUpdate /\ [][Update]_vars

\* decay_epsilon applied to agents of any constructor arguments
MaxDecays == 3

\* <<epsilon, epsilon_decay, epsilon_min>>: the constructor checks nothing
DecayInputs ==
    ({Rat(-1, 2), Rat(0, 1), Rat(1, 20), Rat(1, 2), Rat(1, 1)}
        \X {Rat(-1, 2), Rat(1, 2), Rat(9, 10), Rat(1, 1), Rat(2, 1)}
        \X {Rat(-1, 1), Rat(0, 1), Rat(1, 10)})
    \cup {<<Rat(1, 1), Rat(199, 200), Rat(1, 100)>>}

InitDecay ==
    /\ CVRPEnv_init(OneInstance)
    /\ DriverInit
    /\ \E d \in DecayInputs :
          QLearningAgent_init(Rat(1, 10), Rat(19, 20), d[1], d[2], d[3])

DecayEpsilon ==
    /\ calls < MaxDecays
    /\ decay_epsilon
    /\ UNCHANGED <<instance, env, ret, local, streak, driver>>

SpecDecay == InitDecay /\ [][DecayEpsilon]_vars

\* ------------------------------------------------------ the training loop
MaxEpisodes == 2

RECURSIVE complete_route_whole(_)
\* mutant: the routes are concatenated with their last node
complete_route_whole(routes) ==
    IF routes = <<>> THEN <<>>
    ELSE Head(routes) \o complete_route_whole(Tail(routes))

RECURSIVE complete_route(_)
\* env.py 158-161: every route without its last node, concatenated
complete_route(routes) ==
    IF routes = <<>> THEN <<>>
    ELSE (IF Head(routes) = <<>> THEN <<>>
          ELSE SubSeq(Head(routes), 1, Len(Head(routes)) - 1))
         \o complete_route(Tail(routes))

RECURSIVE route_length(_)
\* env.py 169-172 and 176-178: Euclidean distances between the coordinates
route_length(route) ==
    IF Len(route) < 2 THEN 0
    ELSE Abs(nodes[route[1]] - nodes[route[2]]) + route_length(Tail(route))

\* env.py 156-174
render_route ==
    LET route == IF complete_route(all_routes) # <<>>
                 THEN Append(complete_route(all_routes), depot_id)
                 ELSE <<depot_id>>
    IN  [route |-> route, distance |-> route_length(route)]

\* main.py 93-96: for episode in range(n_episodes): state = env.reset()
EpisodeStart ==
    /\ driver.pc = "episode"
    /\ driver.episode < MaxEpisodes
    /\ reset
    /\ driver' = [driver EXCEPT !.pc = "choose", !.state = ret'.state,
                                !.done = FALSE]
    /\ UNCHANGED agent

\* main.py 103-106
Choose ==
    /\ driver.pc = "choose"
    /\ \E exploring \in BOOLEAN, k \in 1..(NumCustomers + 1) :
          /\ (get_valid_moves = <<>> \/ ~exploring) => (k = 1 /\ ~exploring)
          /\ choose_action(driver.state, get_valid_moves, exploring, k)
    /\ count_streak
    /\ driver' = [driver EXCEPT !.pc = "step", !.action = agent_ret']
    /\ UNCHANGED <<instance, env, ret, local>>

\* main.py 109; nothing catches an exception of step
EnvStep ==
    /\ driver.pc = "step"
    /\ step(driver.action)
    /\ driver' = IF ret'.kind = "return"
                 THEN [driver EXCEPT !.pc = "update",
                                     !.next_state = ret'.state,
                                     !.reward = ret'.reward,
                                     !.done = ret'.done[1]]
                 ELSE [driver EXCEPT !.pc = "raised"]
    /\ UNCHANGED agent

\* main.py 112-118
AgentUpdate ==
    /\ driver.pc = "update"
    /\ update(driver.state, driver.action, driver.reward[1], driver.next_state,
              IF ~driver.done THEN get_valid_moves ELSE <<>>)
    /\ driver' = [driver EXCEPT !.pc = IF driver.done THEN "render" ELSE "choose",
                                !.state = driver.next_state]
    /\ UNCHANGED <<instance, env, ret, local, streak>>

\* main.py 133
new_best(distance) ==
    driver.best_distance = <<>> \/ distance < driver.best_distance[1]

\* main.py 129-144
EpisodeEnd ==
    /\ driver.pc = "render"
    /\ driver' =
          IF new_best(render_route.distance)
          THEN [driver EXCEPT !.pc = "episode", !.episode = @ + 1,
                              !.best_distance = <<render_route.distance>>,
                              !.best_route = render_route.route]
          ELSE [driver EXCEPT !.pc = "episode", !.episode = @ + 1]
    /\ decay_epsilon
    /\ UNCHANGED <<instance, env, ret, local, streak>>

InitTrain ==
    /\ \E inst \in Instances : CVRPEnv_init(inst) /\ DefaultAgent
    /\ DriverInit

NextTrain == EpisodeStart \/ Choose \/ EnvStep \/ AgentUpdate \/ EpisodeEnd

SpecTrain == InitTrain /\ [][NextTrain]_vars

\* ======================================================================
\* Properties
\* ======================================================================
Complete == unvisited = {} /\ current_node = depot_id

\* the nodes of current_route after position last_depot_visit_idx
SinceDepot ==
    SubSeq(current_route, last_depot_visit_idx + 2, Len(current_route))

RECURSIVE DemandOf(_)
DemandOf(seq) ==
    IF seq = <<>> THEN 0
    ELSE (IF Head(seq) \in DOMAIN demands THEN demands[Head(seq)] ELSE 0)
            + DemandOf(Tail(seq))

Occurrences(seq, x) == Cardinality({i \in 1..Len(seq) : seq[i] = x})

\* C1: after reset() and after every step(), current_load is the sum of the
\* demands of the nodes of current_route after position last_depot_visit_idx,
\* and it never exceeds capacity.
C1_LoadIsDemandSinceDepot ==
    /\ current_load = DemandOf(SinceDepot)
    /\ current_load <= capacity

\* a second sub-route is under way and carries load
C1_Witness ==
    /\ last_depot_visit_idx > 0
    /\ current_load > 0
    /\ ret.done = <<FALSE>>

\* C2: every node other than the depot is, exactly once, in exactly one of:
\* unvisited, a sub-route closed by a depot return (current_route up to
\* last_depot_visit_idx), the active sub-route (current_route from there on).
C2_CustomerPartition ==
    \A c \in DOMAIN nodes \ {depot_id} :
        LET closed == SubSeq(current_route, 1, last_depot_visit_idx + 1)
            active == SubSeq(current_route, last_depot_visit_idx + 1,
                             Len(current_route))
        IN  (IF c \in unvisited THEN 1 ELSE 0)
                + Occurrences(closed, c) + Occurrences(active, c) = 1

\* customers in all three places at once
C2_Witness ==
    /\ unvisited # {}
    /\ last_depot_visit_idx > 1
    /\ Len(current_route) > last_depot_visit_idx + 1

\* C3: get_valid_moves() is exactly the unvisited customers that fit, plus
\* the depot iff the vehicle is away from the depot, a customer was visited
\* since the last depot visit, and no customer fits or none is left.
C3_ValidMoves ==
    LET fits == {c \in unvisited : current_load + demands[c] <= capacity}
        depot_ok == /\ current_node # depot_id
                    /\ \E i \in 1..Len(SinceDepot) : SinceDepot[i] # depot_id
                    /\ (fits = {} \/ unvisited = {})
        moves == get_valid_moves
    IN  /\ Range(moves) = fits \cup (IF depot_ok THEN {depot_id} ELSE {})
        /\ Len(moves) = Cardinality(Range(moves))
        /\ current_node = depot_id => depot_id \notin Range(moves)
        /\ fits # {} => depot_id \notin Range(moves)

\* the depot is offered because no remaining customer fits
C3_Witness ==
    /\ unvisited # {}
    /\ get_valid_moves = <<depot_id>>
\* the depot-to-depot segments of a route, in order
ClosedSubRoutes(route) ==
    LET P == sorted({i \in 1..Len(route) : route[i] = depot_id})
    IN  [k \in 1..(Len(P) - 1) |-> SubSeq(route, P[k], P[k + 1])]

\* a feasible CVRP solution: a walk from depot to depot whose sub-routes each
\* serve a customer within capacity, every customer served exactly once
Feasible(route) ==
    /\ route[1] = depot_id /\ route[Len(route)] = depot_id
    /\ \A k \in 1..Len(ClosedSubRoutes(route)) :
          LET sub == ClosedSubRoutes(route)[k] IN
          /\ Len(sub) >= 3
          /\ DemandOf(SubSeq(sub, 2, Len(sub) - 1)) <= capacity
    /\ \A c \in DOMAIN nodes \ {depot_id} : Occurrences(route, c) = 1

StepRaised == ret.kind \in {"UnboundLocalError", "ZeroDivisionError"}
\* the most recent call was a step
StepCalled == ret.done # <<>> \/ StepRaised
\* the most recent step took the invalid-action exit of env.py 91-92
InvalidExit == ret.done # <<>> /\ local.done = <<>>

\* C4: every depot return with a non-empty active sub-route appends one
\* closed sub-route to all_routes, so all_routes is the sequence of the
\* depot-to-depot segments walked so far; on the 4-node instance the walk
\* 0,1,2,0,3,0 returns done = true with all_routes = [[0,1,2,0],[0,3,0]].
C4_RoutePerDepotReturn ==
    /\ all_routes = ClosedSubRoutes(current_route)
    /\ (/\ current_route = <<0, 1, 2, 0, 3, 0>>
        /\ capacity = 10
        /\ \A c \in 1..3 : demands[c] = c + 2)
       => /\ ret.done = <<TRUE>>
          /\ all_routes = << <<0, 1, 2, 0>>, <<0, 3, 0>> >>

\* C5: a step whose action is not a valid move returns done = true, the
\* reward -1000 and the current state representation, and changes no field.
C5_InvalidActionChangesNothing ==
    [][\A a \in ActionInputs :
          (a \notin Range(get_valid_moves) /\ step(a))
          => /\ ret'.kind = "return"
             /\ ret'.done = <<TRUE>>
             /\ ret'.reward = <<Rat(-1000, 1)>>
             /\ ret'.state = get_state
             /\ UNCHANGED <<current_node, current_load, unvisited, current_route,
                            last_depot_visit_idx, all_routes, total_distance,
                            best_solution>>]_vars

\* an invalid action was refused in the middle of a sub-route
C5_Witness ==
    /\ InvalidExit
    /\ ret.done = <<TRUE>>
    /\ current_node # depot_id
    /\ unvisited # {}

C7_TerminalReward ==
    (local.done = <<TRUE>> /\ depot_id \in DOMAIN demands /\ total_distance > 0)
    => IF Feasible(current_route)
       THEN /\ local.reward # <<>>
            /\ RatEq(local.reward[1], Rat(1000, total_distance))
       ELSE local.reward = <<Rat(-1000, 1)>>

\* C8: the reward of a valid terminal solution is strictly positive, also
\* when total_distance is 0, and a valid solution of smaller distance has
\* the greater reward.
C8_ValidRewardPositiveDecreasing ==
    (local.done = <<TRUE>> /\ validate_solution.valid)
    => /\ local.reward # <<>>
       /\ RatPositive(local.reward[1])
       /\ (best_solution.distance # <<>>
           /\ best_solution.distance[1] < total_distance)
          => RatLess(local.reward[1],
                     valid_reward(best_solution.distance[1]).reward)

\* C9: an episode completed by valid moves is a feasible CVRP solution.
C9_CompleteIsFeasible ==
    Complete => Feasible(current_route)

\* an episode completed with more than one sub-route
C9_Witness ==
    /\ Complete
    /\ local.done = <<TRUE>>
    /\ Len(ClosedSubRoutes(current_route)) > 1

InitialState == <<depot_id, sorted(DOMAIN nodes \ {depot_id}), 0, <<depot_id>>, TRUE>>

\* C11: whatever came before, reset() restores the initial episode fields and
\* returns the same state representation as every other reset().
C11_ResetRestores ==
    [][Reset =>
         /\ current_node' = depot_id
         /\ unvisited' = DOMAIN nodes \ {depot_id}
         /\ current_load' = 0
         /\ current_route' = <<depot_id>>
         /\ all_routes' = <<>>
         /\ total_distance' = 0
         /\ last_depot_visit_idx' = 0
         /\ ret'.kind = "return"
         /\ ret'.state = InitialState]_vars

\* a reset made after an episode was completed and recorded as the best
C11_Witness ==
    /\ ret = ReturnedState(InitialState)
    /\ best_solution.distance # <<>>
    /\ all_routes = <<>>

\* C12: best_solution is replaced on a valid terminal step of lower
\* total_distance, and only then (so its distance is the minimum over the
\* validly completed episodes); every other call leaves it unchanged.
C12_BestIsMinimumOfValid ==
    [][IF /\ ~Complete /\ Complete'
          /\ Feasible(current_route')
          /\ (best_solution.distance = <<>>
              \/ total_distance' < best_solution.distance[1])
       THEN best_solution'.distance = <<total_distance'>>
       ELSE UNCHANGED best_solution]_vars

RECURSIVE PathLength(_)
\* the sum of distances[a][b] over the consecutive pairs of a route
PathLength(route) ==
    IF Len(route) < 2 THEN 0
    ELSE distances[route[1]][route[2]] + PathLength(Tail(route))

\* C20: total_distance is the length of current_route; a valid step adds
\* distances[current_node][action] and an invalid step adds nothing.
C20_TotalDistanceIsPathLength ==
    /\ [](total_distance = PathLength(current_route))
    /\ [][\A a \in ActionInputs :
             step(a) =>
                total_distance' = total_distance
                    + (IF a \in Range(get_valid_moves)
                       THEN distances[current_node][a] ELSE 0)]_vars

\* a second episode under way after a reset, with distance travelled
C20_Witness ==
    /\ best_solution.distance # <<>>
    /\ total_distance > 0
    /\ ret.done = <<FALSE>>

\* ---------------------------------------------------------------------
\* C14: choose_action returns a member of valid_moves whenever valid_moves
\* is non-empty, on the exploration and on the exploitation branch, with or
\* without the repeat penalty; it returns None, which is no node id,
\* exactly when valid_moves is empty.
C14_ChoiceIsValidMove ==
    agent_call.op = "choose_action" =>
        /\ agent_call.valid_moves # <<>> =>
              agent_ret \in Range(agent_call.valid_moves)
        /\ agent_ret = None <=> agent_call.valid_moves = <<>>
        /\ None \notin AgentMoves \cup DOMAIN nodes

\* an exploiting choice made while the repeat penalty applied
C14_Witness ==
    /\ agent_call.op = "choose_action"
    /\ ~agent_call.exploring
    /\ agent_ret \in AgentMoves
    /\ consecutive_same_actions > max_consecutive_actions

\* C15: in exploitation, when the action chosen last has been chosen for
\* max_consecutive_actions turns in a row and is among the candidates, it is
\* not selected if another candidate's value is greater than its value
\* minus 1000; before that many repeats the plain maximum is selected.
C15_PenaltyAfterMaxInARow ==
    [][(total_actions' = total_actions + 1
        /\ agent_call'.valid_moves # <<>> /\ ~agent_call'.exploring) =>
           LET state == agent_call'.state
               valid_moves == agent_call'.valid_moves
           IN
              IF streak >= max_consecutive_actions
                 /\ last_action \in Range(valid_moves)
              THEN (\E c \in Range(valid_moves) :
                      /\ c # last_action
                      /\ RatLess(RatSub(get_q_value(q_table, state, last_action),
                                        Rat(REPEAT_PENALTY, 1)),
                                 get_q_value(q_table, state, c)))
                   => agent_ret' # last_action
              ELSE \A c \in Range(valid_moves) :
                      RatLeq(get_q_value(q_table, state, c),
                             get_q_value(q_table, state, agent_ret'))]_vars

\* the stored estimate of a pair, 0 if the pair was never seen
Estimate(table, state, a) ==
    IF state \in DOMAIN table
    THEN IF a \in DOMAIN table[state] THEN table[state][a] ELSE Rat(0, 1)
    ELSE Rat(0, 1)

\* the greatest estimate of next_state over the listed actions, 0 if none
Bootstrap(table, next_state, moves) ==
    IF moves = <<>> THEN Rat(0, 1)
    ELSE CHOOSE b \in {Estimate(table, next_state, moves[i]) :
                          i \in 1..Len(moves)} :
            \A i \in 1..Len(moves) :
                RatLeq(Estimate(table, next_state, moves[i]), b)

\* the target T = reward + discount_factor * B of a call of update
Target(table, call) ==
    RatAdd(call.reward,
           RatMul(gamma, Bootstrap(table, call.next_state,
                                   call.next_valid_moves)))

\* C16: update sets the estimate of (state, action) to
\* old + learning_rate * (reward + discount_factor * B - old), old being the
\* stored estimate or 0, B the maximum estimate of next_state over
\* next_valid_moves (unseen pairs 0), or 0 when next_valid_moves is empty.
C16_UpdateRule ==
    [][calls' = calls + 1 /\ agent_call'.op = "update" =>
          LET c == agent_call'
              old == Estimate(q_table, c.state, c.action)
          IN  /\ c.state \in DOMAIN q_table'
              /\ c.action \in DOMAIN q_table'[c.state]
              /\ q_table'[c.state][c.action] =
                    RatAdd(old, RatMul(lr, RatSub(Target(q_table, c), old)))]_vars

\* a default agent has updated a pair from a nonzero next-state maximum
C16_Witness ==
    /\ agent_call.op = "update"
    /\ <<lr, gamma>> = <<Rat(1, 10), Rat(19, 20)>>
    /\ agent_call.state # agent_call.next_state
    /\ Len(agent_call.next_valid_moves) = 2
    /\ Bootstrap(q_table, agent_call.next_state,
                 agent_call.next_valid_moves) = Rat(2, 1)
    /\ Estimate(q_table, agent_call.state, agent_call.action) = Rat(39, 100)

\* C19: update on one pair with a constant reward and a fixed next-state
\* maximum B contracts toward T = reward + discount_factor * B: T is a fixed
\* point, and with learning_rate in (0, 1] every application multiplies the
\* distance to T by 1 - learning_rate, a factor in [0, 1), so the estimate
\* gets no farther from T, converges to T and never diverges.
C19_Contraction ==
    [][calls' = calls + 1 /\ agent_call'.op = "update"
       /\ RatPositive(lr) /\ RatLeq(lr, Rat(1, 1)) =>
          LET c == agent_call'
              T == Target(q_table, c)
              old == Estimate(q_table, c.state, c.action)
              new == Estimate(q_table', c.state, c.action)
          IN  /\ old = T => new = T
              /\ RatAbs(RatSub(new, T)) =
                    RatMul(RatSub(Rat(1, 1), lr), RatAbs(RatSub(old, T)))
              /\ RatLeq(RatAbs(RatSub(new, T)), RatAbs(RatSub(old, T)))
              /\ RatLeq(Rat(0, 1), RatSub(Rat(1, 1), lr))
              /\ RatLt(RatSub(Rat(1, 1), lr), Rat(1, 1))]_vars

\* the same update applied twice from an unseen pair: the estimate is
\* T * lr * (2 - lr), between lr * T and T
C19_Witness ==
    /\ agent_call.op = "update"
    /\ calls >= 2
    /\ RatLt(lr, Rat(1, 1))
    /\ agent_call.state # agent_call.next_state
    /\ Target(q_table, agent_call) # Rat(0, 1)
    /\ Estimate(q_table, agent_call.state, agent_call.action) =
          RatMul(Target(q_table, agent_call),
                 RatMul(lr, RatSub(Rat(2, 1), lr)))

\* C17 as claimed: for every agent that can be constructed, after every call
\* of decay_epsilon epsilon lies within [epsilon_min, previous epsilon].
C17_EpsilonWithinFloorAndPrevious ==
    [][calls' = calls + 1 /\ agent_call'.op = "decay_epsilon" =>
          /\ RatLeq(epsilon_min, epsilon')
          /\ RatLeq(epsilon', epsilon)]_vars

\* C17: when 0 <= epsilon_decay <= 1, 0 <= epsilon and
\* epsilon_min <= epsilon hold before a call of decay_epsilon, as for the
\* default agent, epsilon lies within [epsilon_min, previous epsilon] after
\* it, and the three conditions hold again.
C17_EpsilonWithinFloorAndPreviousInRange ==
    [][(/\ calls' = calls + 1 /\ agent_call'.op = "decay_epsilon"
        /\ RatLeq(Rat(0, 1), epsilon_decay)
        /\ RatLeq(epsilon_decay, Rat(1, 1))
        /\ RatLeq(Rat(0, 1), epsilon)
        /\ RatLeq(epsilon_min, epsilon)) =>
          /\ RatLeq(epsilon_min, epsilon')
          /\ RatLeq(epsilon', epsilon)
          /\ RatLeq(Rat(0, 1), epsilon')]_vars

\* the default agent after two decays
C17_Witness ==
    /\ agent_call.op = "decay_epsilon"
    /\ <<epsilon_decay, epsilon_min>> = <<Rat(199, 200), Rat(1, 100)>>
    /\ epsilon = Rat(39601, 40000)

\* C13: at the end of every episode of the training loop the retained
\* best_distance / best_route is replaced exactly when the episode produced
\* a valid complete solution of lower total distance; an episode that ends
\* without a valid complete solution never replaces the retained best.
C13_DriverBestIsMinimumOfValid ==
    [][driver.pc = "render" /\ driver'.pc = "episode" =>
          IF Complete /\ Feasible(current_route)
             /\ (driver.best_distance = <<>>
                 \/ total_distance < driver.best_distance[1])
          THEN /\ driver'.best_distance = <<total_distance>>
               /\ driver'.best_route = current_route
          ELSE /\ driver'.best_distance = driver.best_distance
               /\ driver'.best_route = driver.best_route]_vars

\* C18: when get_valid_moves() is empty in the middle of an episode, the
\* agent returns None, step(None) returns done = true without raising and
\* without changing the environment, the loop ends after the update, and the
\* driver goes on to the next episode.
C18_EmptyMovesAbortEpisode ==
    [][/\ (driver.pc = "choose" /\ get_valid_moves = <<>> /\ driver'.pc # "choose")
            => /\ agent_ret' = None
               /\ driver'.action = None
               /\ driver'.pc = "step"
               /\ UNCHANGED <<instance, env>>
       /\ (driver.pc = "step" /\ driver.action = None /\ driver'.pc # "step")
            => /\ ret'.kind = "return"
               /\ driver'.done
               /\ driver'.pc = "update"
               /\ UNCHANGED <<instance, env>>
       /\ (driver.pc = "update" /\ driver.action = None /\ driver'.pc # "update")
            => /\ driver'.pc = "render"
               /\ UNCHANGED <<instance, env>>
       /\ (driver.pc = "render" /\ driver.action = None /\ driver'.pc # "render")
            => /\ driver'.pc = "episode"
               /\ driver'.episode = driver.episode + 1
               /\ UNCHANGED <<instance, env>>
       /\ (driver.pc = "episode" /\ driver.episode > 0 /\ driver'.pc # "episode")
            => /\ driver'.pc = "choose"
               /\ ret'.kind = "return"
               /\ driver'.state = InitialState]_vars

\* the second episode has begun after the first was aborted at the depot
\* with customers served and others left
C18_Witness ==
    /\ driver.pc = "choose"
    /\ driver.episode = 1
    /\ driver.action = None
    /\ driver.state = InitialState
    /\ Cardinality(DOMAIN q_table) > 2
    /\ \E st \in DOMAIN q_table :
          /\ None \in DOMAIN q_table[st]
          /\ st[1] = depot_id
          /\ st[2] # <<>>
          /\ Len(st[2]) < Cardinality(DOMAIN nodes) - 1

\* C21: every valid step that does not complete the episode returns the
\* reward -distances[previous current_node][action], for customer moves and
\* for depot returns alike.
C21_IntermediateRewardIsNegatedEdge ==
    [][\A a \in ActionInputs :
          (step(a) /\ a \in Range(get_valid_moves) /\ ~Complete') =>
              /\ ret'.kind = "return"
              /\ ret'.reward = <<Rat(0 - distances[current_node][a], 1)>>
              /\ ret'.done = <<FALSE>>]_vars

\* a depot return over an edge of positive length with customers left
C21_Witness ==
    /\ ret.kind = "return"
    /\ ret.done = <<FALSE>>
    /\ current_node = depot_id
    /\ unvisited # {}
    /\ Len(current_route) > 1
    /\ ret.reward = <<Rat(-1, 1)>>

\* C22: in exploitation with no repeat penalty in effect, choose_action
\* returns an action of valid_moves whose estimate under the given state is
\* maximal (unseen pairs 0), and of several maximal actions the one that
\* comes first in valid_moves.
C22_GreedyFirstMaximum ==
    [][(/\ total_actions' = total_actions + 1
        /\ agent_call'.valid_moves # <<>>
        /\ ~agent_call'.exploring
        /\ ~(/\ last_action \in Range(agent_call'.valid_moves)
             /\ consecutive_same_actions >= max_consecutive_actions)) =>
          LET state == agent_call'.state
              valid_moves == agent_call'.valid_moves
          IN  \E i \in 1..Len(valid_moves) :
                /\ agent_ret' = valid_moves[i]
                /\ \A j \in 1..Len(valid_moves) :
                      RatLeq(Estimate(q_table, state, valid_moves[j]),
                             Estimate(q_table, state, valid_moves[i]))
                /\ \A j \in 1..(i - 1) :
                      RatLt(Estimate(q_table, state, valid_moves[j]),
                            Estimate(q_table, state, valid_moves[i]))]_vars

\* a tie between two seen actions of equal nonzero estimate, listed with the
\* greater node id first
C22_Witness ==
    /\ agent_call.op = "choose_action"
    /\ ~agent_call.exploring
    /\ agent_call.valid_moves = <<1, 0>>
    /\ agent_ret = 1
    /\ consecutive_same_actions = 0
    /\ Estimate(q_table, agent_call.state, 0) = Rat(1, 1)
    /\ Estimate(q_table, agent_call.state, 1) = Rat(1, 1)

RECURSIVE DepotOnceBetween(_)
\* sub-routes written one after another, the depot once between two of them
\* and once at the end
DepotOnceBetween(subs) ==
    IF subs = <<>> THEN <<>>
    ELSE IF Len(subs) = 1 THEN subs[1]
    ELSE SubSeq(subs[1], 1, Len(subs[1]) - 1) \o DepotOnceBetween(Tail(subs))

\* C23: after an episode has completed, render_route() returns the closed
\* sub-routes of the walk concatenated, the depot once between two of them
\* and once at the end, with a distance equal to total_distance; while
\* all_routes is empty it returns ([depot], 0).
C23_RenderRoute ==
    /\ (Complete /\ all_routes # <<>>) =>
          /\ render_route.route =
                DepotOnceBetween(ClosedSubRoutes(current_route))
          /\ render_route.distance = total_distance
    /\ all_routes = <<>> =>
          render_route = [route |-> <<depot_id>>, distance |-> 0]
    /\ Complete => all_routes # <<>>

\* a completed episode of two sub-routes and positive length
C23_Witness ==
    /\ Complete
    /\ StepRaised
    /\ Len(ClosedSubRoutes(current_route)) = 2
    /\ render_route.distance = 4

\* no customer asks for more than a vehicle holds
DemandsFit == \A c \in DOMAIN nodes \ {depot_id} : demands[c] <= capacity

\* C24: if every customer's demand is at most capacity, get_valid_moves()
\* is non-empty in every reachable state in which the episode is not
\* complete: the episode cannot get stuck.
C24_NeverStuck ==
    (DemandsFit /\ ~Complete) => get_valid_moves # <<>>

\* back at the depot with a full-capacity customer still to serve
C24_Witness ==
    /\ DemandsFit
    /\ current_node = depot_id
    /\ Len(current_route) > 1
    /\ \E c \in unvisited : demands[c] = capacity
    /\ get_valid_moves # <<>>

\* C25: if every customer's demand is at most capacity and there are n >= 1
\* customers, an episode of valid steps reaches done = true after at most 2n
\* steps: a step serves a new customer or returns to the depot, two depot
\* returns are never consecutive, and the completing step returns done = true.
C25_DoneWithinTwoNSteps ==
    [][\A a \in ActionInputs :
          (DemandsFit /\ a \in Range(get_valid_moves) /\ step(a)) =>
              LET n == Cardinality(DOMAIN nodes \ {depot_id}) IN
              /\ (a # depot_id /\ a \in unvisited /\ unvisited' = unvisited \ {a})
                 \/ (a = depot_id /\ current_node # depot_id)
              /\ Len(current_route') - 1 <= 2 * n
              /\ Len(current_route') - 1 = 2 * n => Complete'
              /\ Complete' => ret'.done = <<TRUE>>]_vars

\* C26: in the training loop, where choose_action is given the
\* environment's get_valid_moves(), the action chosen last is never among
\* the moves of the next selection, within an episode and across the
\* episode boundary, so consecutive_same_actions is 0 in every reachable
\* state and the repeat penalty never applies.
C26_NoRepeatInTrainingLoop ==
    /\ consecutive_same_actions = 0
    /\ driver.pc = "choose" =>
          /\ last_action \notin Range(get_valid_moves)
          /\ ~repeat_penalty_applies(get_valid_moves)

\* the first selection of the second episode, made by exploitation after
\* the first episode chose actions and was then aborted
C26_Witness ==
    /\ driver.pc = "step"
    /\ driver.episode = 1
    /\ current_route = <<depot_id>>
    /\ agent_call.op = "choose_action"
    /\ ~agent_call.exploring
    /\ agent_ret \in DOMAIN nodes
    /\ last_action = agent_ret
    /\ streak = 1
    /\ total_actions > 3

\* the pairs a table holds
Pairs(table) == {<<st, a>> : st \in DOMAIN table, a \in AgentMoves \cup {None}}

\* C27: update(state, action, ...) changes the estimate of the pair
\* (state, action) only: the estimate read for every other pair is the same
\* before and after the call, entries created for unseen pairs hold 0, and
\* epsilon, last_action and consecutive_same_actions are unchanged.
C27_UpdateFrame ==
    [][calls' = calls + 1 /\ agent_call'.op = "update" =>
          /\ \A p \in Pairs(q_table) \cup Pairs(q_table') :
                p # <<agent_call'.state, agent_call'.action>> =>
                    Estimate(q_table', p[1], p[2]) = Estimate(q_table, p[1], p[2])
          /\ \A st \in DOMAIN q_table' : \A a \in DOMAIN q_table'[st] :
                (/\ <<st, a>> # <<agent_call'.state, agent_call'.action>>
                 /\ ~(st \in DOMAIN q_table /\ a \in DOMAIN q_table[st]))
                    => q_table'[st][a] = Rat(0, 1)
          /\ DOMAIN q_table \subseteq DOMAIN q_table'
          /\ UNCHANGED <<epsilon, last_action, consecutive_same_actions>>]_vars

\* a second update that created entries for two unseen pairs of the next
\* state and left a nonzero estimate of another pair alone
C27_Witness ==
    /\ agent_call.op = "update"
    /\ calls >= 2
    /\ agent_call.state # agent_call.next_state
    /\ agent_call.next_valid_moves = <<0, 1>>
    /\ agent_call.next_state \in DOMAIN q_table
    /\ q_table[agent_call.next_state][1] = Rat(0, 1)
    /\ q_table[agent_call.next_state][0] # Rat(0, 1)
    /\ q_table[agent_call.state][agent_call.action] # Rat(0, 1)
====
